---- MODULE Spec2Model ----
(***************************************************************************)
(* Model of the Miris render service extension                             *)
(* (miris_render_server_ext/service.py and camera_utils.py).               *)
(*                                                                         *)
(* The three endpoints run as coroutines on one event loop: a handler runs *)
(* without interruption up to its next await.  open_stage and set_renderer *)
(* have no await, render has exactly one (run_until_complete_async), so    *)
(* render is two atomic steps, render(r, rd) up to the await and           *)
(* render_resume(r, valid) after it, with the renderer's step              *)
(* run_until_complete(r, produced) in between.                             *)
(*                                                                         *)
(* Exceptions are recorded under the Python names the code raises.  The    *)
(* design document's names for them are:                                   *)
(*   PreconditionError      RuntimeError "No active stage ..."             *)
(*   UnrecognizedValueError the request model's enum validation error      *)
(*   ArtifactMissingError   AssertionError "Expected <path> to exist"      *)
(*   InvalidInputError      ZeroDivisionError in the aperture conformance  *)
(* Apertures and matrix entries are exact rationals <<numerator,           *)
(* denominator>>; matrices are Gf.Matrix4d: four rows, applied to row      *)
(* vectors, with rotations in multiples of 90 degrees.                     *)
(***************************************************************************)
EXTENDS Integers, Sequences, FiniteSets, TLC

\* ---------------------------------------------------------------- bounds
MaxReqs == 2        \* render requests issued in one behaviour
MaxOpens == 2       \* open_stage calls in one behaviour
MaxDim == 2         \* image width and height range over 0..MaxDim

Reqs == 1..MaxReqs

\* ------------------------------------------------------------- rationals
RECURSIVE Gcd(_, _)
Gcd(a, b) == IF b = 0 THEN a ELSE Gcd(b, a % b)

Abs(x) == IF x < 0 THEN -x ELSE x

\* n / d with the common divisor g taken out, and a positive denominator.
Reduce(n, d, g) ==
    IF g = 0 THEN <<0, 1>>
    ELSE IF d < 0 THEN <<(-n) \div g, (-d) \div g>>
    ELSE <<n \div g, d \div g>>

\* n / d in lowest terms, with a positive denominator.
Rat(n, d) == Reduce(n, d, Gcd(Abs(n), Abs(d)))
RatOfInt(n) == <<n, 1>>
RatIsZero(a) == a[1] = 0
RatDiv(a, b) == Rat(a[1] * b[2], a[2] * b[1])
\* Product and sum of two rationals in lowest terms; the sum is taken over the
\* least common denominator.
RatMul(a, b) == CASE a[2] > 0 /\ b[2] > 0 -> Rat(a[1] * b[1], a[2] * b[2])
Lcm(x, y) == (x \div Gcd(x, y)) * y
RatAddOver(a, b, l) == Rat(a[1] * (l \div a[2]) + b[1] * (l \div b[2]), l)
RatAdd(a, b) == CASE a[2] > 0 /\ b[2] > 0 -> RatAddOver(a, b, Lcm(a[2], b[2]))
RatNeg(a) == <<-a[1], a[2]>>

\* --------------------------------------------------------------- matrices
\* Gf.Matrix4d: four rows of four rationals, applied to row vectors.
MatOfInts(m) ==
    << <<RatOfInt(m[1][1]), RatOfInt(m[1][2]), RatOfInt(m[1][3]), RatOfInt(m[1][4])>>,
       <<RatOfInt(m[2][1]), RatOfInt(m[2][2]), RatOfInt(m[2][3]), RatOfInt(m[2][4])>>,
       <<RatOfInt(m[3][1]), RatOfInt(m[3][2]), RatOfInt(m[3][3]), RatOfInt(m[3][4])>>,
       <<RatOfInt(m[4][1]), RatOfInt(m[4][2]), RatOfInt(m[4][3]), RatOfInt(m[4][4])>> >>

Identity == MatOfInts(<<<<1, 0, 0, 0>>, <<0, 1, 0, 0>>, <<0, 0, 1, 0>>, <<0, 0, 0, 1>>>>)

\* The sum over k of a[k] * B[k][j]: entry j of the row vector a times B.
RowTimesColumn(a, B, j) ==
    RatAdd(RatAdd(RatMul(a[1], B[1][j]), RatMul(a[2], B[2][j])),
           RatAdd(RatMul(a[3], B[3][j]), RatMul(a[4], B[4][j])))

RowTimesMatrix(a, B) ==
    <<RowTimesColumn(a, B, 1), RowTimesColumn(a, B, 2),
      RowTimesColumn(a, B, 3), RowTimesColumn(a, B, 4)>>

\* Gf.Matrix4d.__mul__, of two matrices of four rows.
MatMul(A, B) ==
    CASE Len(A) = 4 /\ Len(B) = 4 ->
        <<RowTimesMatrix(A[1], B), RowTimesMatrix(A[2], B),
          RowTimesMatrix(A[3], B), RowTimesMatrix(A[4], B)>>

\* Cosine and sine of a multiple of 90 degrees.
Quarter(deg) == (deg \div 90) % 4
Cos90(deg) == IF Quarter(deg) = 0 THEN 1 ELSE IF Quarter(deg) = 2 THEN -1 ELSE 0
Sin90(deg) == IF Quarter(deg) = 1 THEN 1 ELSE IF Quarter(deg) = 3 THEN -1 ELSE 0

\* Gf.Matrix4d().SetRotate(Gf.Rotation(axis, deg)) for the three coordinate axes.
RotationX(c, s) ==
    MatOfInts(<<<<1, 0, 0, 0>>, <<0, c, s, 0>>, <<0, -s, c, 0>>, <<0, 0, 0, 1>>>>)
RotateX(deg) == RotationX(Cos90(deg), Sin90(deg))
RotationY(c, s) ==
    MatOfInts(<<<<c, 0, -s, 0>>, <<0, 1, 0, 0>>, <<s, 0, c, 0>>, <<0, 0, 0, 1>>>>)
RotateY(deg) == RotationY(Cos90(deg), Sin90(deg))
RotationZ(c, s) ==
    MatOfInts(<<<<c, s, 0, 0>>, <<-s, c, 0, 0>>, <<0, 0, 1, 0>>, <<0, 0, 0, 1>>>>)
RotateZ(deg) == RotationZ(Cos90(deg), Sin90(deg))

Translate(t) ==
    MatOfInts(<<<<1, 0, 0, 0>>, <<0, 1, 0, 0>>, <<0, 0, 1, 0>>, <<t[1], t[2], t[3], 1>>>>)

\* The rotation of a rigid transform, transposed.
RotationTransposed(M) ==
    << <<M[1][1], M[2][1], M[3][1], <<0, 1>> >>,
       <<M[1][2], M[2][2], M[3][2], <<0, 1>> >>,
       <<M[1][3], M[2][3], M[3][3], <<0, 1>> >>,
       << <<0, 1>>, <<0, 1>>, <<0, 1>>, <<1, 1>> >> >>

\* The translation of a rigid transform, negated.
TranslationBack(M) ==
    << << <<1, 1>>, <<0, 1>>, <<0, 1>>, <<0, 1>> >>,
       << <<0, 1>>, <<1, 1>>, <<0, 1>>, <<0, 1>> >>,
       << <<0, 1>>, <<0, 1>>, <<1, 1>>, <<0, 1>> >>,
       <<RatNeg(M[4][1]), RatNeg(M[4][2]), RatNeg(M[4][3]), <<1, 1>> >> >>

\* Gf.Matrix4d.GetInverse for a rotation followed by a translation: the
\* rotation transposed, and the translation negated and rotated back.
GetInverse(M) == CASE Len(M) = 4 -> MatMul(TranslationBack(M), RotationTransposed(M))

\* gf_matrix_to_tuple: the sixteen values row by row.
gf_matrix_to_tuple(M) == M[1] \o M[2] \o M[3] \o M[4]

\* The matrix a flattened tuple came from.
TupleToMatrix(t) ==
    <<SubSeq(t, 1, 4), SubSeq(t, 5, 8), SubSeq(t, 9, 12), SubSeq(t, 13, 16)>>

\* ---------------------------------------------------------- request data
\* OpenStageRequestData: the field's default.
OpenStageRequestData == [usd_file_location |-> "/tmp/scene.usd"]

UsdFileLocations == {OpenStageRequestData.usd_file_location, "/tmp/other.usd"}

\* OmniverseRtxRenderer: the enum's members and their wire values.
OmniverseRtxRenderer ==
    [Interactive |-> "omniverse_rtx_interactive", RealTime |-> "omniverse_rtx_realtime"]

\* Values a client may send as "renderer".
RendererValues ==
    {"omniverse_rtx_interactive", "omniverse_rtx_realtime", "interactive", "realtime", "bogus"}

CameraNames == {"camera_0", "cam0"}

\* Requested horizontal apertures: the field's default and another value.
HorizontalApertures == {20, 36}

\* Camera positions, and rotations (Euler angles, multiples of 90 degrees).
CameraPositions == {<<0, 0, 5>>, <<1, 2, 3>>}
CameraRotations == {<<0, 0, 0>>, <<90, 0, 0>>, <<0, 90, 0>>, <<0, 0, 90>>, <<90, 0, 90>>}

RenderRequestData ==
    [camera_name : CameraNames,
     camera_position : CameraPositions,
     camera_rotation : CameraRotations,
     camera_focal_length : {15},
     camera_horizontal_aperture : HorizontalApertures,
     image_resolution : (0..MaxDim) \X (0..MaxDim)]

\* The pose of the requests that do not vary it.
FixedPose(rd) == rd.camera_position = <<0, 0, 5>> /\ rd.camera_rotation = <<0, 0, 0>>

\* The requests of the specification of one job: the default camera name and
\* one pose, with every aperture and resolution.
SingleRequests == {rd \in RenderRequestData : rd.camera_name = "camera_0" /\ FixedPose(rd)}

\* The requests of the specification of the camera geometry: the default
\* camera name and aperture, every pose, and the resolutions of height 1.
CameraRequests ==
    {rd \in RenderRequestData :
        /\ rd.camera_name = "camera_0"
        /\ rd.camera_horizontal_aperture = 20
        /\ rd.image_resolution[1] >= 1 /\ rd.image_resolution[2] = 1}

\* The requests of the specification of several jobs: both camera names, the
\* default aperture and the square resolution.
JobRequests ==
    {rd \in RenderRequestData :
        /\ FixedPose(rd)
        /\ rd.camera_horizontal_aperture = 20 /\ rd.image_resolution = <<1, 1>>}

NoRequest ==
    [camera_name |-> "", camera_position |-> <<0, 0, 0>>, camera_rotation |-> <<0, 0, 0>>,
     camera_focal_length |-> 0, camera_horizontal_aperture |-> 0,
     image_resolution |-> <<0, 0>>]

\* ------------------------------------------------------------- artifacts
\* The writer-convention file names, in the order render checks them.
ArtifactNames ==
    <<"rgb_0000.png", "distance_to_image_plane_0000.png", "distance_to_image_plane_0000.npy">>
ArtifactSet == {ArtifactNames[i] : i \in 1..Len(ArtifactNames)}

\* os.path.join(dir, name)
PathJoin(dir, name) == [tmp |-> dir.tmp, sub |-> dir.sub, file |-> name]

\* Every call returns the same directory.
MkDTempFixed(existing) == [tmp |-> 1, sub |-> ""]

\* tempfile.mkdtemp(): a directory that did not exist before the call.
MkDTemp(existing) ==
    LET used == {d.tmp : d \in existing}
        n == CHOOSE k \in 1..(Cardinality(used) + 1) :
                 k \notin used /\ \A j \in 1..(k - 1) : j \in used
    IN  [tmp |-> n, sub |-> ""]

\* os.path.join(tmp_dir, f"output_{camera_name}")
OutputDir(tmp_dir, camera_name) == [tmp |-> tmp_dir.tmp, sub |-> "output_" \o camera_name]

NoDir == [tmp |-> 0, sub |-> ""]

\* ----------------------------------------------------------------- state
NoStage == [id |-> 0, path |-> ""]
NoCamera == [exists |-> FALSE, name |-> "", stage |-> 0, up_axis |-> "",
             position |-> <<0, 0, 0>>, rotation |-> <<0, 0, 0>>,
             clipping_range |-> <<0, 0>>, focal_length |-> 0,
             horizontal_aperture |-> <<0, 1>>, vertical_aperture |-> <<0, 1>>]
NoRenderProduct == [exists |-> FALSE, name |-> "", resolution |-> <<0, 0>>]
NoWriter == [attached |-> FALSE, output_dir |-> NoDir]
NoMatrix == gf_matrix_to_tuple(MatOfInts(<<<<0, 0, 0, 0>>, <<0, 0, 0, 0>>, <<0, 0, 0, 0>>, <<0, 0, 0, 0>>>>))
NoCameraInfo == [focal_length |-> 0, horizontal_aperture |-> <<0, 1>>,
                 vertical_aperture |-> <<0, 1>>, near_clip |-> 0, far_clip |-> 0,
                 world_to_camera |-> NoMatrix, world_to_ndc |-> NoMatrix,
                 projection_matrix |-> NoMatrix]
NoPath == [tmp |-> 0, sub |-> "", file |-> ""]
NoResult == [kind |-> "none", error |-> "", path |-> NoPath,
             color_image_path |-> NoPath, depth_image_path |-> NoPath,
             depth_npy_path |-> NoPath, camera |-> NoCameraInfo]
NoHttpResponse == [op |-> "", arg |-> "", status |-> ""]

VARIABLES
    active_stage,           \* the stage of omni.usd.get_context()
    active_renderer_mode,   \* the render mode held by rep.settings
    http_response,          \* the outcome of the last open_stage / set_renderer call
    request,                \* request[r]: the RenderRequestData of request r
    pc,                     \* pc[r]: where render is for request r
    stage,                  \* stage[r]: render's local variable "stage"
    camera,                 \* camera[r]: the camera prim made by rep.create.camera
    render_product,         \* render_product[r]
    triggers,               \* triggers[r]: max_execs of the triggers it registered
    writer,                 \* writer[r]: the BasicWriter it initialized and attached
    frames,                 \* frames[r]: frames the renderer executed for r
    completed,              \* completed[r]: run_until_complete_async has returned
    steps,                  \* steps[r]: the statements of render executed so far, in order
    dirs,                   \* directories on disk
    files,                  \* files on disk
    result                  \* result[r]: the response or the exception of render

vars == <<active_stage, active_renderer_mode, http_response, request, pc, stage, camera,
          render_product, triggers, writer, frames, completed, steps, dirs, files, result>>

process_state == <<active_stage, active_renderer_mode>>
request_vars == <<request, pc, stage, camera, render_product, triggers, writer, frames,
                  completed, steps, dirs, files, result>>

RenderModes == {"PathTraced", "RealTime"}

Init ==
    /\ active_stage = NoStage
    /\ active_renderer_mode = "RealTime"
    /\ http_response = NoHttpResponse
    /\ request = [r \in Reqs |-> NoRequest]
    /\ pc = [r \in Reqs |-> "Idle"]
    /\ stage = [r \in Reqs |-> NoStage]
    /\ camera = [r \in Reqs |-> NoCamera]
    /\ render_product = [r \in Reqs |-> NoRenderProduct]
    /\ triggers = [r \in Reqs |-> <<>>]
    /\ writer = [r \in Reqs |-> NoWriter]
    /\ frames = [r \in Reqs |-> 0]
    /\ completed = [r \in Reqs |-> FALSE]
    /\ steps = [r \in Reqs |-> <<>>]
    /\ dirs = {}
    /\ files = {}
    /\ result = [r \in Reqs |-> NoResult]

\* ------------------------------------------------------------ open_stage
\* A stage already open is kept.
UsdContextOpenStageKeep(current, path) ==
    IF current.id = 0 THEN [id |-> 1, path |-> path] ELSE current

\* usd_context.open_stage(path): the context's stage becomes a new stage for
\* the file, whatever it held before.
UsdContextOpenStage(current, path) == [id |-> current.id + 1, path |-> path]

open_stage(usd_file_location) ==
    /\ active_stage.id < MaxOpens
    /\ active_stage' = UsdContextOpenStage(active_stage, usd_file_location)
    /\ http_response' = [op |-> "open_stage", arg |-> usd_file_location, status |-> "ok"]
    /\ UNCHANGED <<active_renderer_mode, request_vars>>

\* ---------------------------------------------------------- set_renderer
\* The short names are accepted too.
ParseRendererLenient(value) ==
    IF value \in {OmniverseRtxRenderer.Interactive, "interactive"} THEN "Interactive"
    ELSE IF value \in {OmniverseRtxRenderer.RealTime, "realtime"} THEN "RealTime"
    ELSE "invalid"

\* SetRendererRequestData: the field is parsed as an OmniverseRtxRenderer, by value.
ParseRenderer(value) ==
    IF value = OmniverseRtxRenderer.Interactive THEN "Interactive"
    ELSE IF value = OmniverseRtxRenderer.RealTime THEN "RealTime"
    ELSE "invalid"

\* Each call switches away from the mode it names when that mode is already set.
SetRenderModeToggle(mode, renderer) ==
    IF renderer = "Interactive" THEN (IF mode = "PathTraced" THEN "RealTime" ELSE "PathTraced")
    ELSE IF renderer = "RealTime" THEN (IF mode = "RealTime" THEN "PathTraced" ELSE "RealTime")
    ELSE mode

\* The body of set_renderer: the mode after the call with a parsed member.
SetRenderMode(mode, renderer) ==
    IF renderer = "Interactive" THEN "PathTraced"
    ELSE IF renderer = "RealTime" THEN "RealTime"
    ELSE mode

\* set_renderer that also closes the stage.
set_renderer_closing_stage(value) ==
    /\ active_renderer_mode' = SetRenderMode(active_renderer_mode, ParseRenderer(value))
    /\ active_stage' = NoStage
    /\ http_response' =
           [op |-> "set_renderer", arg |-> value,
            status |-> IF ParseRenderer(value) = "invalid" THEN "ValidationError" ELSE "ok"]
    /\ UNCHANGED request_vars

\* set_renderer: the request is validated, then the mode is set.
set_renderer(value) ==
    LET renderer == ParseRenderer(value) IN
    /\ active_renderer_mode' = SetRenderMode(active_renderer_mode, renderer)
    /\ http_response' =
           [op |-> "set_renderer", arg |-> value,
            status |-> IF renderer = "invalid" THEN "ValidationError" ELSE "ok"]
    /\ UNCHANGED <<active_stage, request_vars>>

\* ---------------------------------------------------------------- render
\* rep.create.camera: a camera prim on the current stage with the requested
\* intrinsics; the vertical aperture is not passed and keeps the library's value.
LibraryVerticalAperture == <<15, 1>>

\* The clipping range rep.create.camera gives a camera when none is passed.
LibraryClippingRange == <<1, 1000000>>

\* The up axis each scene file declares.
UsdFileUpAxis == [p \in UsdFileLocations |-> IF p = "/tmp/scene.usd" THEN "Y" ELSE "Z"]

\* UsdGeom.GetStageUpAxis(stage): the axis the stage's file declares, and the
\* fallback axis Y for a stage without one.
GetStageUpAxis(s) == IF s.path \in DOMAIN UsdFileUpAxis THEN UsdFileUpAxis[s.path] ELSE "Y"

CreateCamera(rd, current_stage) ==
    [exists |-> TRUE, name |-> rd.camera_name, stage |-> current_stage.id,
     up_axis |-> GetStageUpAxis(current_stage),
     position |-> rd.camera_position, rotation |-> rd.camera_rotation,
     clipping_range |-> LibraryClippingRange,
     focal_length |-> rd.camera_focal_length,
     horizontal_aperture |-> RatOfInt(rd.camera_horizontal_aperture),
     vertical_aperture |-> LibraryVerticalAperture]

\* rep.create.render_product(camera, resolution, name)
CreateRenderProduct(rd) ==
    [exists |-> TRUE, name |-> rd.camera_name, resolution |-> rd.image_resolution]

\* The trigger registered with max_execs=2.
OnFrameTwoExecs(registered) == Append(registered, 2)

\* with rep.trigger.on_frame(max_execs=1): pass
OnFrame(registered) == Append(registered, 1)

RECURSIVE SumSeq(_)
SumSeq(s) == IF s = <<>> THEN 0 ELSE Head(s) + SumSeq(Tail(s))

\* "stage is None" skipped: every request passes the check.
StageIsNoneUnchecked(s) == FALSE

\* usd_context.get_stage() is None
StageIsNone(s) == s = NoStage

RuntimeErrorNoStage == "RuntimeError: No active stage, please open a USD file via /open_stage"

\* The statements of render from a passed stage check to the await, in order.
SubmitSteps ==
    <<"validate", "create_camera", "create_render_product", "register_trigger",
      "attach_writer", "await_completion">>

\* render, from its entry to the await of run_until_complete_async.
render(r, rd) ==
    /\ pc[r] = "Idle"
    /\ request' = [request EXCEPT ![r] = rd]
    /\ stage' = [stage EXCEPT ![r] = active_stage]
    /\ IF StageIsNone(active_stage)
       THEN /\ pc' = [pc EXCEPT ![r] = "Rejected"]
            /\ result' = [result EXCEPT ![r] =
                   [NoResult EXCEPT !.kind = "error", !.error = RuntimeErrorNoStage]]
            /\ steps' = [steps EXCEPT ![r] = <<"validate">>]
            /\ UNCHANGED <<camera, render_product, triggers, writer, dirs>>
       ELSE LET tmp_dir == MkDTemp(dirs)
                output_dir == OutputDir(tmp_dir, rd.camera_name)
            IN  /\ camera' = [camera EXCEPT ![r] = CreateCamera(rd, active_stage)]
                /\ render_product' = [render_product EXCEPT ![r] = CreateRenderProduct(rd)]
                /\ triggers' = [triggers EXCEPT ![r] = OnFrame(triggers[r])]
                /\ dirs' = dirs \cup {tmp_dir, output_dir}
                /\ writer' = [writer EXCEPT ![r] =
                       [attached |-> TRUE, output_dir |-> output_dir]]
                /\ pc' = [pc EXCEPT ![r] = "AwaitingCompletion"]
                /\ steps' = [steps EXCEPT ![r] = SubmitSteps]
                /\ UNCHANGED result
    /\ UNCHANGED <<active_stage, active_renderer_mode, http_response, frames, completed,
                   files>>

\* The renderer, while render is suspended: it executes the request's
\* triggers, its attached writer writes the files of the set "produced", and
\* run_until_complete_async returns.
run_until_complete(r, produced) ==
    /\ pc[r] = "AwaitingCompletion"
    /\ ~completed[r]
    /\ frames' = [frames EXCEPT ![r] = frames[r] + SumSeq(triggers[r])]
    /\ files' = files \cup
           (IF writer[r].attached /\ SumSeq(triggers[r]) > 0
            THEN {PathJoin(writer[r].output_dir, f) : f \in produced}
            ELSE {})
    /\ completed' = [completed EXCEPT ![r] = TRUE]
    /\ UNCHANGED <<active_stage, active_renderer_mode, http_response, request, pc, stage,
                   camera, render_product, triggers, writer, steps, dirs, result>>

\* The aspect ratio taken as height / width.
conform_inverted_aspect(cam, image_resolution) ==
    IF image_resolution[1] = 0
    THEN [raised |-> TRUE, camera |-> cam]
    ELSE LET aspect_ratio == Rat(image_resolution[2], image_resolution[1]) IN
         IF RatIsZero(aspect_ratio)
         THEN [raised |-> TRUE, camera |-> cam]
         ELSE [raised |-> FALSE,
               camera |-> [cam EXCEPT !.vertical_aperture =
                              RatDiv(cam.horizontal_aperture, aspect_ratio)]]

\* A zero height or width leaves the vertical aperture as it is, and nothing raises.
conform_guarded(cam, image_resolution) ==
    IF image_resolution[2] = 0 \/ image_resolution[1] = 0
    THEN [raised |-> FALSE, camera |-> cam]
    ELSE [raised |-> FALSE,
          camera |-> [cam EXCEPT !.vertical_aperture =
                         RatDiv(cam.horizontal_aperture,
                                Rat(image_resolution[1], image_resolution[2]))]]

\* The vertical aperture derived from the vertical aperture the camera holds.
conform_compounding(cam, image_resolution) ==
    IF image_resolution[2] = 0 \/ image_resolution[1] = 0
    THEN [raised |-> TRUE, camera |-> cam]
    ELSE [raised |-> FALSE,
          camera |-> [cam EXCEPT !.vertical_aperture =
                         RatDiv(cam.vertical_aperture,
                                Rat(image_resolution[1], image_resolution[2]))]]

\* conform_camera_vertical_aperture(camera, image_resolution): the camera
\* after the call, or the division that raised.
conform_camera_vertical_aperture(cam, image_resolution) ==
    IF image_resolution[2] = 0
    THEN [raised |-> TRUE, camera |-> cam]
    ELSE LET aspect_ratio == Rat(image_resolution[1], image_resolution[2]) IN
         IF RatIsZero(aspect_ratio)
         THEN [raised |-> TRUE, camera |-> cam]
         ELSE [raised |-> FALSE,
               camera |-> [cam EXCEPT !.vertical_aperture =
                              RatDiv(cam.horizontal_aperture, aspect_ratio)]]

\* The perspective projection of a frustum between the planes near and far
\* whose window at unit distance is the aperture over the focal length.
Perspective(two_f, horizontal_aperture, vertical_aperture, near, far, depth) ==
    << <<RatDiv(two_f, horizontal_aperture), <<0, 1>>, <<0, 1>>, <<0, 1>> >>,
       << <<0, 1>>, RatDiv(two_f, vertical_aperture), <<0, 1>>, <<0, 1>> >>,
       << <<0, 1>>, <<0, 1>>, RatNeg(RatDiv(RatAdd(far, near), depth)), <<-1, 1>> >>,
       << <<0, 1>>, <<0, 1>>,
          RatNeg(RatDiv(RatMul(<<2, 1>>, RatMul(near, far)), depth)), <<0, 1>> >> >>

\* camera.GetCamera().frustum.ComputeProjectionMatrix()
ComputeProjectionMatrix(cam) ==
    Perspective(RatOfInt(2 * cam.focal_length), cam.horizontal_aperture,
                cam.vertical_aperture, RatOfInt(cam.clipping_range[1]),
                RatOfInt(cam.clipping_range[2]),
                RatOfInt(cam.clipping_range[2] - cam.clipping_range[1]))

\* UsdGeom.Xformable(camera_prim).ComputeLocalToWorldTransform: the rotation
\* about X, then Y, then Z, then the translation.
ComputeLocalToWorldTransform(cam) ==
    MatMul(MatMul(MatMul(RotateX(cam.rotation[1]), RotateY(cam.rotation[2])),
                  RotateZ(cam.rotation[3])),
           Translate(cam.position))

\* The CameraInfo of a camera and its three matrices.
CameraInfo(cam, projection_matrix, world_to_camera_matrix, world_to_ndc) ==
    [focal_length |-> cam.focal_length,
     near_clip |-> cam.clipping_range[1],
     far_clip |-> cam.clipping_range[2],
     horizontal_aperture |-> cam.horizontal_aperture,
     vertical_aperture |-> cam.vertical_aperture,
     projection_matrix |-> gf_matrix_to_tuple(projection_matrix),
     world_to_camera |-> gf_matrix_to_tuple(world_to_camera_matrix),
     world_to_ndc |-> gf_matrix_to_tuple(world_to_ndc)]

\* The extrinsic and the projection composed in the other order.
from_usd_camera_reversed_ndc(cam, projection_matrix, world_to_camera_matrix) ==
    CameraInfo(cam, projection_matrix, world_to_camera_matrix,
               MatMul(projection_matrix, world_to_camera_matrix))

\* world_to_ndc = world_to_camera_matrix * projection_matrix, and the result.
from_usd_camera_ndc(cam, projection_matrix, world_to_camera_matrix) ==
    CameraInfo(cam, projection_matrix, world_to_camera_matrix,
               MatMul(world_to_camera_matrix, projection_matrix))

\* The axis correction applied on the other side of the transform.
CorrectUpAxisOnLeft(up_axis, camera_to_world_matrix, R) ==
    IF up_axis = "Z" THEN MatMul(R, camera_to_world_matrix) ELSE camera_to_world_matrix

\* if up_axis == UsdGeom.Tokens.z: camera_to_world_matrix = camera_to_world_matrix * R
CorrectUpAxis(up_axis, camera_to_world_matrix, R) ==
    IF up_axis = "Z" THEN MatMul(camera_to_world_matrix, R) ELSE camera_to_world_matrix

from_usd_camera_reversed(cam) ==
    from_usd_camera_reversed_ndc(cam, ComputeProjectionMatrix(cam),
        GetInverse(CorrectUpAxis(cam.up_axis, ComputeLocalToWorldTransform(cam),
                                 RotateX(-90))))

from_usd_camera_left_corrected(cam) ==
    from_usd_camera_ndc(cam, ComputeProjectionMatrix(cam),
        GetInverse(CorrectUpAxisOnLeft(cam.up_axis, ComputeLocalToWorldTransform(cam),
                                       RotateX(-90))))

\* CameraInfo.from_usd_camera(camera): the projection of the camera's frustum,
\* the inverse of its local-to-world transform, corrected by R on a Z-up
\* stage, and their product.
from_usd_camera(cam) ==
    from_usd_camera_ndc(cam, ComputeProjectionMatrix(cam),
        GetInverse(CorrectUpAxis(cam.up_axis, ComputeLocalToWorldTransform(cam),
                                 RotateX(-90))))

\* The camera information extracted before the aperture is conformed.
ResolveExtractFirst(cam, image_resolution) ==
    IF conform_camera_vertical_aperture(cam, image_resolution).raised
    THEN [raised |-> TRUE, camera |-> cam, info |-> NoCameraInfo]
    ELSE [raised |-> FALSE,
          camera |-> conform_camera_vertical_aperture(cam, image_resolution).camera,
          info |-> from_usd_camera(cam)]

\* CameraInfo.from_usd_camera on the camera the conformance left, unless it raised.
Extract(cam, conformed) ==
    IF conformed.raised
    THEN [raised |-> TRUE, camera |-> cam, info |-> NoCameraInfo]
    ELSE [raised |-> FALSE, camera |-> conformed.camera,
          info |-> from_usd_camera(conformed.camera)]

\* render's two calls on the camera: conform_camera_vertical_aperture, then
\* CameraInfo.from_usd_camera on the conformed camera.
Resolve(cam, image_resolution) ==
    Extract(cam, conform_camera_vertical_aperture(cam, image_resolution))

\* The artifact paths render expects, in the order it checks them.
ExpectedPaths(output_dir) == [i \in 1..Len(ArtifactNames) |-> PathJoin(output_dir, ArtifactNames[i])]

\* os.path.isfile
IsFile(path, on_disk) == path \in on_disk

\* The asserts compiled away: nothing is reported missing.
FirstMissingUnchecked(paths, on_disk) == 0

\* Any missing file is reported as the first expected path.
FirstMissingAsFirst(paths, on_disk) ==
    IF \A i \in 1..Len(paths) : IsFile(paths[i], on_disk) THEN 0 ELSE 1

\* The loop of asserts: the index of the first expected path that is no file, 0 if none.
FirstMissing(paths, on_disk) ==
    IF \A i \in 1..Len(paths) : IsFile(paths[i], on_disk)
    THEN 0
    ELSE CHOOSE i \in 1..Len(paths) :
             /\ ~IsFile(paths[i], on_disk)
             /\ \A j \in 1..(i - 1) : IsFile(paths[j], on_disk)

ErrorResult(error, path) == [NoResult EXCEPT !.kind = "error", !.error = error, !.path = path]

ResponseResult(paths, info) ==
    [kind |-> "response", error |-> "", path |-> NoPath,
     color_image_path |-> paths[1], depth_image_path |-> paths[2],
     depth_npy_path |-> paths[3], camera |-> info]

\* The camera conformed before the artifacts are checked and the prim looked up.
ResumeConformFirstFrom(cam, paths, valid, missing, resolved) ==
    IF resolved.raised
    THEN [pc |-> "Failed", camera |-> cam, steps |-> <<"conform_aperture">>,
          result |-> ErrorResult("ZeroDivisionError", NoPath)]
    ELSE IF missing # 0
    THEN [pc |-> "Failed", camera |-> resolved.camera,
          steps |-> <<"conform_aperture", "verify_artifacts">>,
          result |-> ErrorResult("AssertionError: Expected path to exist", paths[missing])]
    ELSE IF ~valid
    THEN [pc |-> "Failed", camera |-> resolved.camera,
          steps |-> <<"conform_aperture", "verify_artifacts", "lookup_camera">>,
          result |-> ErrorResult("AssertionError: Invalid camera prim", NoPath)]
    ELSE [pc |-> "Done", camera |-> resolved.camera,
          steps |-> <<"conform_aperture", "verify_artifacts", "lookup_camera",
                      "extract_camera_info", "respond">>,
          result |-> ResponseResult(paths, resolved.info)]

ResumeConformFirst(cam, image_resolution, paths, on_disk, valid) ==
    ResumeConformFirstFrom(cam, paths, valid, FirstMissing(paths, on_disk),
                           Resolve(cam, image_resolution))

\* A missing artifact suspends the request a second time, for the files.
ResumeWaitingFrom(cam, paths, missing, resolved) ==
    IF missing # 0
    THEN [pc |-> "AwaitingArtifacts", camera |-> cam, steps |-> <<"verify_artifacts">>,
          result |-> NoResult]
    ELSE [pc |-> "Done", camera |-> resolved.camera,
          steps |-> <<"verify_artifacts", "lookup_camera", "conform_aperture",
                      "extract_camera_info", "respond">>,
          result |-> ResponseResult(paths, resolved.info)]

ResumeWaitingForArtifacts(cam, image_resolution, paths, on_disk, valid) ==
    ResumeWaitingFrom(cam, paths, FirstMissing(paths, on_disk),
                      Resolve(cam, image_resolution))

\* The statements of render after the await, in order: the asserts on the
\* three files, of which "missing" is the first to fail, the camera lookup and
\* its assert, the conformance and the extraction, of which "resolved" is the
\* outcome, and the response.  The outcome, the camera afterwards and the
\* statements executed.
ResumeFrom(cam, paths, valid, missing, resolved) ==
    IF missing # 0
    THEN [pc |-> "Failed", camera |-> cam, steps |-> <<"verify_artifacts">>,
          result |-> ErrorResult("AssertionError: Expected path to exist", paths[missing])]
    ELSE IF ~valid
    THEN [pc |-> "Failed", camera |-> cam,
          steps |-> <<"verify_artifacts", "lookup_camera">>,
          result |-> ErrorResult("AssertionError: Invalid camera prim", NoPath)]
    ELSE IF resolved.raised
    THEN [pc |-> "Failed", camera |-> cam,
          steps |-> <<"verify_artifacts", "lookup_camera", "conform_aperture">>,
          result |-> ErrorResult("ZeroDivisionError", NoPath)]
    ELSE [pc |-> "Done", camera |-> resolved.camera,
          steps |-> <<"verify_artifacts", "lookup_camera", "conform_aperture",
                      "extract_camera_info", "respond">>,
          result |-> ResponseResult(paths, resolved.info)]

Resume(cam, image_resolution, paths, on_disk, valid) ==
    ResumeFrom(cam, paths, valid, FirstMissing(paths, on_disk),
               Resolve(cam, image_resolution))

\* render, from the return of run_until_complete_async to its end.  "valid"
\* is whether the prim looked up on the local stage is a camera: it is when
\* that stage is still the context's stage, and either way when it was
\* replaced meanwhile.
render_resume(r, valid) ==
    /\ pc[r] = "AwaitingCompletion"
    /\ completed[r]
    /\ stage[r] = active_stage => valid
    /\ \E after \in {Resume(camera[r], request[r].image_resolution,
                              ExpectedPaths(writer[r].output_dir), files, valid)} :
           /\ pc' = [pc EXCEPT ![r] = after.pc]
           /\ camera' = [camera EXCEPT ![r] = after.camera]
           /\ steps' = [steps EXCEPT ![r] = steps[r] \o after.steps]
           /\ result' = [result EXCEPT ![r] = after.result]
    /\ UNCHANGED <<active_stage, active_renderer_mode, http_response, request, stage,
                   render_product, triggers, writer, frames, completed, dirs, files>>

\* ---------------------------------------------------------- specification
\* One render request, with the requests of SingleRequests and every writer
\* outcome.
Next ==
    \/ \E p \in UsdFileLocations : open_stage(p)
    \/ \E v \in RendererValues : set_renderer(v)
    \/ \E rd \in SingleRequests : render(1, rd)
    \/ \E produced \in SUBSET ArtifactSet : run_until_complete(1, produced)
    \/ \E valid \in BOOLEAN : render_resume(1, valid)

Spec == Init /\ [][Next]_vars

\* Several render requests, one after another or overlapping, on stages opened
\* from the default location, with the requests of JobRequests and a writer
\* that produces every file or misses one.
JobOutcomes == {ArtifactSet, ArtifactSet \ {ArtifactNames[2]}}

NextJobs ==
    \/ open_stage(OpenStageRequestData.usd_file_location)
    \/ \E r \in Reqs, rd \in JobRequests : render(r, rd)
    \/ \E r \in Reqs, produced \in JobOutcomes : run_until_complete(r, produced)
    \/ \E r \in Reqs, valid \in BOOLEAN : render_resume(r, valid)

SpecJobs == Init /\ [][NextJobs]_vars

\* One render request on a Y-up or a Z-up stage, with the requests of
\* CameraRequests and a writer that produces every file.
NextCamera ==
    \/ \E p \in UsdFileLocations : open_stage(p)
    \/ \E rd \in CameraRequests : render(1, rd)
    \/ run_until_complete(1, ArtifactSet)
    \/ \E valid \in BOOLEAN : render_resume(1, valid)

SpecCamera == Init /\ [][NextCamera]_vars

\* The steps in which the event loop resumes request r after the await: the
\* steps of render_resume(r, valid), told by the request leaving the await.
Terminal == {"Done", "Rejected", "Failed"}

RenderResumes(r) ==
    /\ pc[r] = "AwaitingCompletion"
    /\ completed[r]
    /\ \E t \in Terminal : pc' = [pc EXCEPT ![r] = t]

\* Several render requests, before or after the one stage is opened, with the scheduling of a renderer that completes what
\* it was given and of the event loop: a request that waits is eventually
\* signalled, and a signalled request is eventually resumed.
NextLive ==
    \/ (active_stage = NoStage /\ open_stage(OpenStageRequestData.usd_file_location))
    \/ \E r \in Reqs, rd \in JobRequests : render(r, rd)
    \/ \E r \in Reqs, produced \in JobOutcomes : run_until_complete(r, produced)
    \/ \E r \in Reqs, valid \in BOOLEAN : render_resume(r, valid)

Fairness ==
    \A r \in Reqs :
        /\ WF_vars(\E produced \in JobOutcomes : run_until_complete(r, produced))
        /\ WF_pc(RenderResumes(r))

SpecLive == Init /\ [][NextLive]_vars /\ Fairness

\* ------------------------------------------------------------------ claims
\* A step in which request r enters render.
RenderEntered(r) == pc[r] = "Idle" /\ pc'[r] # "Idle"
\* A step in which request r resumes after the renderer's completion.
RenderResumed(r) == pc[r] = "AwaitingCompletion" /\ pc'[r] # "AwaitingCompletion"

AssertionErrorExpected == "AssertionError: Expected path to exist"

\* C1: a render request issued while there is no active stage fails with the
\* "no active stage" error and has no side effect: no camera, render product,
\* trigger, writer, directory or file is created, no frame is rendered, and
\* the active stage and the renderer mode are unchanged.
C1_NoStageRenderRejected ==
    [][\A r \in Reqs :
          (RenderEntered(r) /\ active_stage = NoStage) =>
              /\ pc'[r] = "Rejected"
              /\ result'[r].kind = "error"
              /\ result'[r].error = RuntimeErrorNoStage
              /\ UNCHANGED <<camera, render_product, triggers, writer, frames, completed,
                             dirs, files, active_stage, active_renderer_mode>>]_vars

C1_Witness ==
    \E r \in Reqs :
        /\ pc[r] = "Rejected"
        /\ result[r].error = RuntimeErrorNoStage
        /\ camera[r] = NoCamera /\ dirs = {}

\* C2: whenever render has returned a response, the renderer has signalled
\* completion for that request, the three paths of the response are the three
\* writer-convention names under the request's own output directory, and each
\* of them is a file on disk.
C2_ResponseOnlyWithArtifacts ==
    \A r \in Reqs :
        result[r].kind = "response" =>
            /\ pc[r] = "Done"
            /\ completed[r]
            /\ result[r].color_image_path = PathJoin(writer[r].output_dir, "rgb_0000.png")
            /\ result[r].depth_image_path =
                   PathJoin(writer[r].output_dir, "distance_to_image_plane_0000.png")
            /\ result[r].depth_npy_path =
                   PathJoin(writer[r].output_dir, "distance_to_image_plane_0000.npy")
            /\ writer[r].output_dir.sub = "output_" \o request[r].camera_name
            /\ {result[r].color_image_path, result[r].depth_image_path,
                result[r].depth_npy_path} \subseteq files

\* A response was returned while another request of the same camera name
\* ended without one of its files.
C2_Witness ==
    \E r, q \in Reqs :
        /\ result[r].kind = "response"
        /\ pc[q] = "Failed"
        /\ request[q].camera_name = request[r].camera_name

\* C3: when render resumes and one of the three expected files is missing, it
\* fails with the assertion error naming an expected file that is missing (the
\* first missing one in checking order, so the missing file itself when only
\* one is missing), returns no response, renders nothing again, and leaves the
\* temporary directory and the output directory in place.
C3_MissingArtifactFails ==
    [][\A r \in Reqs :
          LET paths == ExpectedPaths(writer[r].output_dir)
              absent == {i \in 1..Len(paths) : paths[i] \notin files}
          IN  (RenderResumed(r) /\ absent # {}) =>
                  /\ pc'[r] = "Failed"
                  /\ result'[r].kind = "error"
                  /\ result'[r].error = AssertionErrorExpected
                  /\ \E i \in absent :
                         /\ result'[r].path = paths[i]
                         /\ \A j \in absent : i <= j
                  /\ UNCHANGED <<frames, triggers, completed, files>>
                  /\ dirs' = dirs
                  /\ writer[r].output_dir \in dirs'
                  /\ [tmp |-> writer[r].output_dir.tmp, sub |-> ""] \in dirs']_vars

\* The request failed on its last expected file, the only one missing.
C3_Witness ==
    \E r \in Reqs :
        /\ pc[r] = "Failed"
        /\ result[r].error = AssertionErrorExpected
        /\ result[r].path = PathJoin(writer[r].output_dir, ArtifactNames[3])
        /\ PathJoin(writer[r].output_dir, ArtifactNames[1]) \in files
        /\ PathJoin(writer[r].output_dir, ArtifactNames[2]) \in files
        /\ writer[r].output_dir \in dirs

\* C4: every render request that passed validation has registered exactly one
\* trigger, of one execution, and the renderer has executed at most one frame
\* for it; a request that has not passed validation has registered none.
C4_OneTriggerOneFrame ==
    \A r \in Reqs :
        IF pc[r] \in {"Idle", "Rejected"}
        THEN triggers[r] = <<>> /\ frames[r] = 0
        ELSE /\ Len(triggers[r]) = 1
             /\ triggers[r][1] = 1
             /\ frames[r] <= 1
             /\ (completed[r] => frames[r] = 1)

\* Two requests of the same camera name overlapped: one has its frame, the
\* other is still waiting for the renderer.
C4_Witness ==
    \E r, q \in Reqs :
        /\ r # q
        /\ request[r].camera_name = request[q].camera_name
        /\ frames[r] = 1
        /\ pc[r] = "AwaitingCompletion"
        /\ pc[q] = "AwaitingCompletion" /\ ~completed[q]

\* C5: open_stage(path) is always possible and makes the stage for path the
\* active stage whatever was active before; once a stage is active one stays
\* active, a render request entered then passes the stage check, and when it
\* resumes on that stage with the three files written and a resolution of
\* positive width and height it ends Done with a response holding the three
\* existing paths and the camera information.
C5_OpenStageThenRender ==
    /\ [](/\ http_response.op = "open_stage" =>
               (active_stage # NoStage /\ active_stage.path = http_response.arg)
          /\ active_stage.id < MaxOpens =>
               \A p \in UsdFileLocations : ENABLED open_stage(p))
    /\ [][/\ \A p \in UsdFileLocations :
                 open_stage(p) => (active_stage'.path = p /\ active_stage' # active_stage)
          /\ active_stage # NoStage => active_stage' # NoStage
          /\ \A r \in Reqs :
                 /\ (RenderEntered(r) /\ active_stage # NoStage) =>
                        (pc'[r] = "AwaitingCompletion" /\ stage'[r] = active_stage)
                 /\ ( /\ RenderResumed(r)
                      /\ stage[r] = active_stage
                      /\ \A i \in 1..3 : ExpectedPaths(writer[r].output_dir)[i] \in files
                      /\ request[r].image_resolution[1] > 0
                      /\ request[r].image_resolution[2] > 0 ) =>
                        /\ pc'[r] = "Done"
                        /\ result'[r].kind = "response"
                        /\ {result'[r].color_image_path, result'[r].depth_image_path,
                            result'[r].depth_npy_path} \subseteq files'
                        /\ result'[r].camera = from_usd_camera(camera'[r])]_vars

\* A request ended Done on a stage that replaced an earlier stage of another file.
C5_Witness ==
    \E r \in Reqs :
        /\ pc[r] = "Done"
        /\ stage[r].id = 2
        /\ stage[r].path = "/tmp/other.usd"
        /\ result[r].kind = "response"

\* The wire values of the two members of OmniverseRtxRenderer.
RecognizedValues == {OmniverseRtxRenderer.Interactive, OmniverseRtxRenderer.RealTime}

\* The mode each recognized value selects.
ModeOf(value) == IF value = OmniverseRtxRenderer.Interactive THEN "PathTraced" ELSE "RealTime"

\* C6 as stated: set_renderer("interactive") and set_renderer("realtime")
\* each succeed and set the mode to PathTraced and RealTime respectively.
C6_ShortNamesSucceed ==
    /\ (http_response.op = "set_renderer" /\ http_response.arg = "interactive") =>
           (http_response.status = "ok" /\ active_renderer_mode = "PathTraced")
    /\ (http_response.op = "set_renderer" /\ http_response.arg = "realtime") =>
           (http_response.status = "ok" /\ active_renderer_mode = "RealTime")

\* C6, amended: set_renderer with "omniverse_rtx_interactive" or
\* "omniverse_rtx_realtime" succeeds and sets the mode to PathTraced or
\* RealTime respectively, and is idempotent: applied to any reachable mode, a
\* second application changes nothing, and a call repeated right after itself
\* leaves the active stage and the mode as they were.
C6_SetRendererIdempotent ==
    /\ [](/\ \A v \in RecognizedValues :
                (http_response.op = "set_renderer" /\ http_response.arg = v) =>
                    (http_response.status = "ok" /\ active_renderer_mode = ModeOf(v))
          /\ \A v \in RecognizedValues :
                LET once == SetRenderMode(active_renderer_mode, ParseRenderer(v))
                IN  once = ModeOf(v) /\ SetRenderMode(once, ParseRenderer(v)) = once)
    /\ [][\A v \in RecognizedValues :
              (set_renderer(v) /\ http_response.op = "set_renderer" /\ http_response.arg = v)
                  => UNCHANGED <<active_stage, active_renderer_mode>>]_vars

\* "omniverse_rtx_interactive" was accepted on an open stage and the mode is
\* PathTraced.
C6_Witness ==
    /\ http_response = [op |-> "set_renderer", arg |-> "omniverse_rtx_interactive",
                        status |-> "ok"]
    /\ active_renderer_mode = "PathTraced"
    /\ active_stage # NoStage

\* C7: set_renderer with a value other than the two recognized ones fails
\* with the validation error and leaves the renderer mode and the active
\* stage as they were.
C7_UnrecognizedRejected ==
    /\ [](http_response.op = "set_renderer" =>
              (http_response.status = "ValidationError"
                   <=> http_response.arg \notin RecognizedValues))
    /\ [][\A v \in RendererValues \ RecognizedValues :
              set_renderer(v) =>
                  /\ http_response'.status = "ValidationError"
                  /\ UNCHANGED <<active_stage, active_renderer_mode>>]_vars

\* "bogus" was rejected while the mode was PathTraced and a stage was open.
C7_Witness ==
    /\ http_response = [op |-> "set_renderer", arg |-> "bogus", status |-> "ValidationError"]
    /\ active_renderer_mode = "PathTraced"
    /\ active_stage # NoStage

\* C8: only open_stage writes the active stage and only set_renderer writes
\* the renderer mode: every step of a render request (entry, the renderer's
\* run, resumption, whatever its outcome) leaves both unchanged, set_renderer
\* leaves the active stage unchanged and open_stage leaves the mode unchanged.
C8_Frame ==
    [][/\ (request_vars' # request_vars) => UNCHANGED <<active_stage, active_renderer_mode>>
       /\ \A r \in Reqs :
              (RenderEntered(r) \/ RenderResumed(r) \/ completed'[r] # completed[r])
                  => UNCHANGED <<active_stage, active_renderer_mode>>
       /\ (\E v \in RendererValues : set_renderer(v)) => UNCHANGED active_stage
       /\ (\E p \in UsdFileLocations : open_stage(p)) => UNCHANGED active_renderer_mode
       /\ (active_stage' # active_stage) => (\E p \in UsdFileLocations : open_stage(p))]_vars

\* A request ended in failure and another step set the mode, on an open stage.
C8_Witness ==
    \E r \in Reqs :
        /\ pc[r] = "Failed"
        /\ active_stage # NoStage
        /\ active_renderer_mode = "PathTraced"
        /\ http_response.op = "set_renderer"

\* C9: the camera information of every response is aspect-conformed to the
\* request's resolution (w, h): vertical_aperture * w = horizontal_aperture * h,
\* with horizontal_aperture the requested one, whatever vertical aperture the
\* camera had when it was created (apertures as exact rationals).
C9_AspectConformed ==
    \A r \in Reqs :
        (result[r].kind = "response" /\ request[r].image_resolution[2] > 0) =>
            LET w == request[r].image_resolution[1]
                h == request[r].image_resolution[2]
                info == result[r].camera
            IN  /\ info.horizontal_aperture = RatOfInt(request[r].camera_horizontal_aperture)
                /\ RatMul(info.vertical_aperture, RatOfInt(w))
                       = RatMul(info.horizontal_aperture, RatOfInt(h))
                /\ camera[r].vertical_aperture = info.vertical_aperture

\* A response for a resolution twice as wide as high: the vertical aperture
\* is half the requested horizontal aperture of 20.
C9_Witness ==
    \E r \in Reqs :
        /\ result[r].kind = "response"
        /\ request[r].image_resolution = <<2, 1>>
        /\ request[r].camera_horizontal_aperture = 20
        /\ result[r].camera.vertical_aperture = <<10, 1>>

\* C10 as stated: a render request of height 0 fails with the division error
\* of the aperture conformance and returns no response.
C10_ZeroHeightAlwaysDivisionError ==
    \A r \in Reqs :
        (pc[r] \in Terminal /\ request[r].image_resolution[2] = 0) =>
            (result[r].kind = "error" /\ result[r].error = "ZeroDivisionError")

\* C10, amended: a render request of height 0 never returns a response; it
\* fails with the error of the first step that fails: "no active stage" when
\* no stage is open, the missing-artifact error when an expected file is
\* missing, the invalid-camera error only when the stage was replaced while it
\* waited, and otherwise, having got as far as the aperture conformance, the
\* division error.
C10_ZeroHeightFails ==
    \A r \in Reqs :
        (pc[r] \in Terminal /\ request[r].image_resolution[2] = 0) =>
            LET missing == \E i \in 1..3 : ExpectedPaths(writer[r].output_dir)[i] \notin files
            IN  /\ result[r].kind = "error"
                /\ pc[r] # "Done"
                /\ (pc[r] = "Rejected") <=> (stage[r] = NoStage)
                /\ stage[r] = NoStage => result[r].error = RuntimeErrorNoStage
                /\ (stage[r] # NoStage /\ missing) => result[r].error = AssertionErrorExpected
                /\ (stage[r] # NoStage /\ ~missing) =>
                       result[r].error \in {"ZeroDivisionError",
                                            "AssertionError: Invalid camera prim"}
                /\ result[r].error = "AssertionError: Invalid camera prim" =>
                       stage[r].id < active_stage.id

\* A request of height 0 rendered its three files and then failed in the division.
C10_Witness ==
    \E r \in Reqs :
        /\ pc[r] = "Failed"
        /\ request[r].image_resolution[2] = 0
        /\ request[r].image_resolution[1] > 0
        /\ result[r].error = "ZeroDivisionError"
        /\ \A i \in 1..3 : ExpectedPaths(writer[r].output_dir)[i] \in files

\* C11: every request that attached a writer has an output directory of its
\* own, which did not exist before the request created it: no two requests
\* share an output directory or an artifact path, whatever their camera names.
C11_FreshOutputDirectory ==
    /\ [](\A r, q \in Reqs :
              (r # q /\ writer[r].attached /\ writer[q].attached) =>
                  /\ writer[r].output_dir # writer[q].output_dir
                  /\ writer[r].output_dir.tmp # writer[q].output_dir.tmp
                  /\ \A i, j \in 1..3 :
                         ExpectedPaths(writer[r].output_dir)[i]
                             # ExpectedPaths(writer[q].output_dir)[j])
    /\ [][\A r \in Reqs :
              (RenderEntered(r) /\ pc'[r] = "AwaitingCompletion") =>
                  /\ writer'[r].attached
                  /\ writer'[r].output_dir \notin dirs
                  /\ writer'[r].output_dir \in dirs'
                  /\ \A f \in files : f.tmp # writer'[r].output_dir.tmp]_vars

\* Two requests of the same camera name have both written their files, each
\* under its own directory.
C11_Witness ==
    \E r, q \in Reqs :
        /\ r # q
        /\ request[r].camera_name = request[q].camera_name
        /\ writer[r].attached /\ writer[q].attached
        /\ \A i \in 1..3 : ExpectedPaths(writer[r].output_dir)[i] \in files
        /\ \A i \in 1..3 : ExpectedPaths(writer[q].output_dir)[i] \in files

\* The errors render raises for conditions other than a replaced stage.
OtherErrors ==
    {RuntimeErrorNoStage, AssertionErrorExpected, "AssertionError: Invalid camera prim",
     "ZeroDivisionError"}

\* C12: a render request resumes on the stage it was validated on: the stage
\* is not replaced while the request waits for the renderer, or else the
\* request ends with an error that reports the replaced stage.
C12_StageNotSwappedInFlight ==
    [][\A r \in Reqs :
          RenderResumed(r) =>
              \/ stage[r] = active_stage
              \/ (result'[r].kind = "error" /\ result'[r].error \notin OtherErrors)]_vars

\* C13: two requests that are in flight together never hold cameras, or
\* render products, of the same name.
C13_DistinctNamesInFlight ==
    \A r, q \in Reqs :
        (r # q /\ pc[r] = "AwaitingCompletion" /\ pc[q] = "AwaitingCompletion") =>
            /\ camera[r].name # camera[q].name
            /\ render_product[r].name # render_product[q].name

\* C14: a request that attached a writer and has ended, however it ended, has
\* its writer detached and its render product disposed.
C14_CleanupOnExit ==
    \A r \in Reqs :
        (pc[r] \in {"Done", "Failed"}) =>
            (~writer[r].attached /\ ~render_product[r].exists)

\* C15: resolving a camera twice for the same resolution, the scene
\* otherwise unchanged, gives the same CameraInfo both times and leaves the
\* camera after the second call as it was after the first; so a camera render
\* has resolved resolves again to the CameraInfo of the response.
C15_ResolveIdempotent ==
    \A r \in Reqs :
        camera[r].exists =>
            LET first == Resolve(camera[r], request[r].image_resolution)
                second == Resolve(first.camera, request[r].image_resolution)
            IN  /\ second.raised = first.raised
                /\ second.info = first.info
                /\ second.camera = first.camera
                /\ pc[r] = "Done" =>
                       (~first.raised /\ first.info = result[r].camera
                                     /\ first.camera = camera[r])

\* A response for an image that is not square, whose camera holds a vertical
\* aperture other than the one it was created with.
C15_Witness ==
    /\ pc[1] = "Done"
    /\ request[1].image_resolution[1] # request[1].image_resolution[2]
    /\ camera[1].vertical_aperture # LibraryVerticalAperture
    /\ camera[1].vertical_aperture # camera[1].horizontal_aperture
    /\ Resolve(camera[1], request[1].image_resolution).info = result[1].camera

\* The camera of request r as it would be on a stage of the given up axis.
OnUpAxis(r, up_axis) == [camera[r] EXCEPT !.up_axis = up_axis]

\* The world_to_camera matrix CameraInfo reports for a camera.
WorldToCamera(cam) == TupleToMatrix(from_usd_camera(cam).world_to_camera)

\* C16 as stated: the world_to_camera of a camera on a Z-up stage is the
\* world_to_camera of the same camera on a Y-up stage multiplied by the
\* rotation of -90 degrees about X, on either side.
C16_WorldToCameraTimesCorrection ==
    \A r \in Reqs :
        camera[r].exists =>
            \/ WorldToCamera(OnUpAxis(r, "Z"))
                   = MatMul(WorldToCamera(OnUpAxis(r, "Y")), RotateX(-90))
            \/ WorldToCamera(OnUpAxis(r, "Z"))
                   = MatMul(RotateX(-90), WorldToCamera(OnUpAxis(r, "Y")))

\* C16, amended: the correction is applied to the camera-to-world transform,
\* on its right, before the inversion.  On a Y-up stage world_to_camera is the
\* inverse of the local-to-world transform; on a Z-up stage it is the inverse
\* of the local-to-world transform times the rotation of -90 degrees about X,
\* which is the rotation of +90 degrees about X times the Y-up world_to_camera.
\* The response reports the matrix of the stage the camera is on.
C16_UpAxisCorrection ==
    \A r \in Reqs :
        camera[r].exists =>
            LET local_to_world == ComputeLocalToWorldTransform(camera[r])
                y_up == WorldToCamera(OnUpAxis(r, "Y"))
                z_up == WorldToCamera(OnUpAxis(r, "Z"))
            IN  /\ y_up = GetInverse(local_to_world)
                /\ MatMul(local_to_world, y_up) = Identity
                /\ z_up = GetInverse(MatMul(local_to_world, RotateX(-90)))
                /\ z_up = MatMul(RotateX(90), y_up)
                /\ pc[r] = "Done" =>
                       TupleToMatrix(result[r].camera.world_to_camera)
                           = (IF camera[r].up_axis = "Z" THEN z_up ELSE y_up)

\* A response for a rotated camera on a Z-up stage, whose world_to_camera is
\* not the one a Y-up stage would give.
C16_Witness ==
    /\ pc[1] = "Done"
    /\ camera[1].up_axis = "Z"
    /\ camera[1].rotation = <<90, 0, 90>>
    /\ TupleToMatrix(result[1].camera.world_to_camera) # WorldToCamera(OnUpAxis(1, "Y"))
    /\ TupleToMatrix(result[1].camera.world_to_camera)
           = MatMul(RotateX(90), WorldToCamera(OnUpAxis(1, "Y")))

\* The camera-to-world transform from_usd_camera inverts: the local-to-world
\* transform, corrected on a Z-up stage.
CameraToWorld(cam) ==
    IF cam.up_axis = "Z"
    THEN MatMul(ComputeLocalToWorldTransform(cam), RotateX(-90))
    ELSE ComputeLocalToWorldTransform(cam)

\* C17: in every CameraInfo of a response, world_to_ndc is world_to_camera
\* times projection_matrix, in that order, and world_to_camera is the inverse
\* of the camera-to-world transform, corrected or not.
C17_WorldToNdcComposition ==
    \A r \in Reqs :
        pc[r] = "Done" =>
            LET info == result[r].camera
                world_to_camera == TupleToMatrix(info.world_to_camera)
                projection_matrix == TupleToMatrix(info.projection_matrix)
            IN  /\ TupleToMatrix(info.world_to_ndc)
                       = MatMul(world_to_camera, projection_matrix)
                /\ MatMul(CameraToWorld(camera[r]), world_to_camera) = Identity
                /\ MatMul(world_to_camera, CameraToWorld(camera[r])) = Identity

\* A response for a rotated camera on a Z-up stage, for which the two orders
\* of the product differ.
C17_Witness ==
    /\ pc[1] = "Done"
    /\ camera[1].up_axis = "Z"
    /\ camera[1].rotation = <<0, 90, 0>>
    /\ camera[1].position = <<1, 2, 3>>
    /\ TupleToMatrix(result[1].camera.world_to_ndc)
           # MatMul(TupleToMatrix(result[1].camera.projection_matrix),
                    TupleToMatrix(result[1].camera.world_to_camera))

\* The statements of render after the await, in order.
ResumeSteps ==
    <<"verify_artifacts", "lookup_camera", "conform_aperture", "extract_camera_info",
      "respond">>

\* The statements of a render call that runs to its response.
Lifecycle == SubmitSteps \o ResumeSteps

IsPrefix(s, t) == Len(s) <= Len(t) /\ s = SubSeq(t, 1, Len(s))

Executed(r, step) == \E i \in 1..Len(steps[r]) : steps[r][i] = step

\* C18: the statements a render request has executed are an initial part of
\* validate, create camera, create render product, register trigger, attach
\* writer, await completion, verify artifacts, look up / conform / extract
\* the camera, respond.  The aperture conformance has run only if the three
\* artifacts were found, and the camera's vertical aperture differs from the
\* one it was created with only if the conformance has run: a request that
\* was rejected has no camera, and one that failed on a missing artifact
\* leaves the vertical aperture as it was created.
C18_LifecycleOrder ==
    \A r \in Reqs :
        /\ IsPrefix(steps[r], Lifecycle)
        /\ pc[r] = "Idle" <=> steps[r] = <<>>
        /\ pc[r] = "Rejected" <=> steps[r] = <<"validate">>
        /\ pc[r] = "AwaitingCompletion" <=> steps[r] = SubmitSteps
        /\ pc[r] = "Done" <=> steps[r] = Lifecycle
        /\ Executed(r, "conform_aperture") =>
               /\ completed[r]
               /\ \A i \in 1..3 : IsFile(ExpectedPaths(writer[r].output_dir)[i], files)
        /\ (camera[r].exists /\ camera[r].vertical_aperture # LibraryVerticalAperture) =>
               Executed(r, "conform_aperture")
        /\ pc[r] = "Rejected" => camera[r] = NoCamera
        /\ (pc[r] = "Failed" /\ result[r].error = AssertionErrorExpected) =>
               /\ steps[r] = SubmitSteps \o <<"verify_artifacts">>
               /\ camera[r].vertical_aperture = LibraryVerticalAperture

\* A request for an image that is not square has failed on a missing
\* artifact, after the renderer completed, and its camera holds the vertical
\* aperture it was created with.
C18_Witness ==
    /\ pc[1] = "Failed"
    /\ result[1].error = AssertionErrorExpected
    /\ completed[1]
    /\ request[1].image_resolution = <<2, 1>>
    /\ steps[1] = SubmitSteps \o <<"verify_artifacts">>
    /\ camera[1].vertical_aperture = LibraryVerticalAperture

\* The vertical aperture the conformance gives request r's camera.
ConformedVerticalAperture(r) ==
    RatDiv(RatOfInt(request[r].camera_horizontal_aperture),
           Rat(request[r].image_resolution[1], request[r].image_resolution[2]))

\* C19: the vertical_aperture of a response's CameraInfo, and the vertical
\* scale of its projection_matrix, are those of the vertical aperture the
\* conformance gave the camera for the request's resolution, which the camera
\* holds afterwards; they are not those of the vertical aperture the camera
\* was created with.
C19_ConformBeforeExtract ==
    \A r \in Reqs :
        pc[r] = "Done" =>
            LET info == result[r].camera
                two_f == RatOfInt(2 * request[r].camera_focal_length)
            IN  /\ camera[r].vertical_aperture = ConformedVerticalAperture(r)
                /\ info.vertical_aperture = ConformedVerticalAperture(r)
                /\ info.projection_matrix[6] = RatDiv(two_f, ConformedVerticalAperture(r))
                /\ ConformedVerticalAperture(r) # LibraryVerticalAperture =>
                       /\ info.vertical_aperture # LibraryVerticalAperture
                       /\ info.projection_matrix[6] # RatDiv(two_f, LibraryVerticalAperture)

\* A response whose camera was created with a vertical aperture of 15 and
\* conformed to 72, and whose CameraInfo reports 72.
C19_Witness ==
    /\ pc[1] = "Done"
    /\ request[1].camera_horizontal_aperture = 36
    /\ request[1].image_resolution = <<1, 2>>
    /\ result[1].camera.vertical_aperture = <<72, 1>>
    /\ result[1].camera.projection_matrix[6] = <<5, 12>>

\* C20: a render request is suspended only at the await of the renderer's
\* completion; if the renderer signals every request it was given, a request
\* that waits ends in Done, Rejected or Failed and stays in that one state;
\* and while the renderer has not signalled a waiting request nothing else
\* resumes it, since the wait has no timeout.
C20_OneSuspensionThenTerminal ==
    /\ [](\A r \in Reqs :
              /\ pc[r] \in {"Idle", "AwaitingCompletion"} \cup Terminal
              /\ pc[r] = "AwaitingCompletion" => steps[r][Len(steps[r])] = "await_completion"
              /\ (pc[r] = "AwaitingCompletion" /\ ~completed[r]) =>
                     ~ENABLED (\E valid \in BOOLEAN : render_resume(r, valid)))
    /\ [][\A r \in Reqs :
              /\ pc[r] \in Terminal => pc'[r] = pc[r]
              /\ (pc[r] = "AwaitingCompletion" /\ ~completed[r]) => pc'[r] = pc[r]]_vars
    /\ \A r \in Reqs : (pc[r] = "AwaitingCompletion") ~> (pc[r] \in Terminal)

\* One request has ended with a response and another with a failure, both after
\* the renderer signalled them.
C20_Witness ==
    \E r, q \in Reqs :
        /\ pc[r] = "Done" /\ completed[r]
        /\ pc[q] = "Failed" /\ completed[q]

====
